---------------------------- MODULE Spec2Model ----------------------------
(***************************************************************************)
(* Record validation and batch ingestion of scripts/download_GBIF.py.      *)
(*                                                                         *)
(* Python text is a sequence of one-character strings, so that slicing,    *)
(* splitting, lower-casing and parsing are computed character by           *)
(* character.  A Python value is a record [k, s, n]: k is its kind, s its  *)
(* text (kind "str") and n its number (kind "int": the integer; kind      *)
(* "float": the finite float in tenths).                                   *)
(***************************************************************************)
EXTENDS Integers, Sequences, FiniteSets, TLC

(***************************************************************************)
(* Python values                                                           *)
(***************************************************************************)
PyNone     == [k |-> "None",   s |-> << >>, n |-> 0]
PyNaN      == [k |-> "NaN",    s |-> << >>, n |-> 0]
PyInf      == [k |-> "Inf",    s |-> << >>, n |-> 0]
PyNegInf   == [k |-> "NegInf", s |-> << >>, n |-> 0]
PyFloat(t) == [k |-> "float",  s |-> << >>, n |-> t]
PyInt(i)   == [k |-> "int",    s |-> << >>, n |-> i]
PyStr(cs)  == [k |-> "str",    s |-> cs,    n |-> 0]

\* An exception leaving a call, named by its class.
Raised(exc) == [k |-> "Raise", s |-> <<exc>>, n |-> 0]
IsRaised(v) == v.k = "Raise"

(***************************************************************************)
(* Text helpers                                                            *)
(***************************************************************************)
Digits == <<"0", "1", "2", "3", "4", "5", "6", "7", "8", "9">>
UpperCase == <<"A","B","C","D","E","F","G","H","I","J","K","L","M",
               "N","O","P","Q","R","S","T","U","V","W","X","Y","Z">>
LowerCase == <<"a","b","c","d","e","f","g","h","i","j","k","l","m",
               "n","o","p","q","r","s","t","u","v","w","x","y","z">>

IsDigit(c) == \E d \in 1..10 : Digits[d] = c
DigitVal(c) == (CHOOSE d \in 1..10 : Digits[d] = c) - 1
AllDigits(cs) == \A j \in 1..Len(cs) : IsDigit(cs[j])

\* The number written by a non-empty sequence of digits.
RECURSIVE DigitsVal(_)
DigitsVal(cs) ==
    IF cs = << >> THEN 0
    ELSE 10 * DigitsVal(SubSeq(cs, 1, Len(cs) - 1)) + DigitVal(cs[Len(cs)])

\* str() of a natural number.
RECURSIVE NatStr(_)
NatStr(m) ==
    IF m < 10 THEN <<Digits[m + 1]>>
    ELSE NatStr(m \div 10) \o <<Digits[(m % 10) + 1]>>

IntStr(i) == IF i < 0 THEN <<"-">> \o NatStr(-i) ELSE NatStr(i)

\* str.lower()
LowerChar(c) ==
    IF \E u \in 1..26 : UpperCase[u] = c
    THEN LowerCase[CHOOSE u \in 1..26 : UpperCase[u] = c]
    ELSE c
Lower(cs) == [j \in 1..Len(cs) |-> LowerChar(cs[j])]

Contains(cs, c) == \E j \in 1..Len(cs) : cs[j] = c
FirstIndex(cs, c) == CHOOSE j \in 1..Len(cs) : cs[j] = c /\ \A h \in 1..(j - 1) : cs[h] # c

\* str.strip() for the blank character.
RECURSIVE LStrip(_)
LStrip(cs) == IF cs # << >> /\ Head(cs) = " " THEN LStrip(Tail(cs)) ELSE cs
RECURSIVE RStrip(_)
RStrip(cs) ==
    IF cs # << >> /\ cs[Len(cs)] = " " THEN RStrip(SubSeq(cs, 1, Len(cs) - 1)) ELSE cs
Strip(cs) == RStrip(LStrip(cs))

\* str(value)
Str(v) ==
    CASE v.k = "str"    -> v.s
      [] v.k = "None"   -> <<"N", "o", "n", "e">>
      [] v.k = "NaN"    -> <<"n", "a", "n">>
      [] v.k = "Inf"    -> <<"i", "n", "f">>
      [] v.k = "NegInf" -> <<"-", "i", "n", "f">>
      [] v.k = "int"    -> IntStr(v.n)
      [] v.k = "float"  ->
            LET a == IF v.n < 0 THEN -v.n ELSE v.n
            IN  (IF v.n < 0 THEN <<"-">> ELSE << >>)
                    \o NatStr(a \div 10) \o <<".">> \o NatStr(a % 10)


(***************************************************************************)
(* The conversion functions handed to safe_convert: the built-ins float     *)
(* and int.  Text is read by the grammar                                   *)
(*   [blanks] [sign] (digits ["." [digits]] | "." digits | inf | infinity  *)
(*   | nan) [blanks]   for float,   [blanks] [sign] digits [blanks] for    *)
(* int; exponents and digit-group underscores are outside the values       *)
(* modelled.  A model float keeps one decimal digit.                        *)
(***************************************************************************)
Unsigned(cs) == IF cs # << >> /\ Head(cs) \in {"+", "-"} THEN Tail(cs) ELSE cs
IsNegative(cs) == cs # << >> /\ Head(cs) = "-"

ParseFloat(cs) ==
    LET t   == Strip(cs)
        u   == Unsigned(t)
        neg == IsNegative(t)
        lu  == Lower(u)
        p   == IF Contains(u, ".") THEN FirstIndex(u, ".") ELSE 0
        ip  == IF p = 0 THEN u ELSE SubSeq(u, 1, p - 1)
        fp  == IF p = 0 THEN << >> ELSE SubSeq(u, p + 1, Len(u))
        mag == 10 * DigitsVal(ip) + (IF fp = << >> THEN 0 ELSE DigitVal(fp[1]))
    IN  IF lu \in {<<"i","n","f">>, <<"i","n","f","i","n","i","t","y">>}
        THEN (IF neg THEN PyNegInf ELSE PyInf)
        ELSE IF lu = <<"n","a","n">> THEN PyNaN
        ELSE IF AllDigits(ip) /\ AllDigits(fp) /\ (ip # << >> \/ fp # << >>)
        THEN PyFloat(IF neg THEN -mag ELSE mag)
        ELSE Raised("ValueError")

ParseInt(cs) ==
    LET t == Strip(cs)
        u == Unsigned(t)
    IN  IF u # << >> /\ AllDigits(u)
        THEN PyInt(IF IsNegative(t) THEN -DigitsVal(u) ELSE DigitsVal(u))
        ELSE Raised("ValueError")

\* float(value)
float(v) ==
    CASE v.k = "str"  -> ParseFloat(v.s)
      [] v.k = "int"  -> PyFloat(10 * v.n)
      [] v.k \in {"float", "NaN", "Inf", "NegInf"} -> v
      [] v.k = "None" -> Raised("TypeError")

\* Truncation toward zero of a float given in tenths.
Trunc(t) == IF t < 0 THEN -((-t) \div 10) ELSE t \div 10

\* int(value)
int(v) ==
    CASE v.k = "str"   -> ParseInt(v.s)
      [] v.k = "int"   -> v
      [] v.k = "float" -> PyInt(Trunc(v.n))
      [] v.k = "NaN"   -> Raised("ValueError")
      [] v.k \in {"Inf", "NegInf"} -> Raised("OverflowError")
      [] v.k = "None"  -> Raised("TypeError")

\* convert_func(value); "none" stands for convert_func=None, the pass-through.
ConvertFuncs == {"none", "float", "int"}
Apply(convert_func, v) ==
    CASE convert_func = "float" -> float(v)
      [] convert_func = "int"   -> int(v)
      [] convert_func = "none"  -> v

(***************************************************************************)
(* safe_convert  (download_GBIF.py, lines 75-81)                            *)
(***************************************************************************)
isna(v) == v.k \in {"None", "NaN"}

NullMarkers == { <<"n","a","n">>, <<"n","o","n","e">>, << >> }

\* The test of line 76 without .lower(): a marker is recognised in lower case only.
IsNullMarkerCaseSensitive(v) == isna(v) \/ v.k = "None" \/ Str(v) \in NullMarkers

\* The test of line 76 (and of line 85).
IsNullMarker(v) == isna(v) \/ v.k = "None" \/ Lower(Str(v)) \in NullMarkers

\* The exceptions the try of lines 78-81 catches.
Caught == {"ValueError", "TypeError"}

\* One call: what it returns (or the exception that leaves it) and whether
\* line 79 was reached, that is whether the conversion was attempted.
SafeConvertCall(value, convert_func) ==
    IF IsNullMarker(value) THEN [ret |-> PyNone, applied |-> FALSE]
    ELSE LET r == Apply(convert_func, value)
         IN  [ret     |-> IF IsRaised(r) /\ r.s[1] \in Caught THEN PyNone ELSE r,
              applied |-> TRUE]

safe_convert(value, convert_func) == SafeConvertCall(value, convert_func).ret

(***************************************************************************)
(* datetime.fromisoformat, by the grammar of its documentation:            *)
(*   YYYY-MM-DD[*HH[:MM[:SS[.fff[fff]]]][+HH:MM[:SS[.ffffff]]]]            *)
(* where * is any single character.  The fields are range-checked as the   *)
(* datetime constructor checks them.  This is the grammar every CPython     *)
(* since 3.7 reads; 3.11 and later read further forms (basic format, week   *)
(* dates, other fraction lengths), which none of the texts below takes,     *)
(* whole, range-split or truncated.                                         *)
(***************************************************************************)
IsLeap(y) == (y % 4 = 0 /\ y % 100 # 0) \/ y % 400 = 0
DaysInMonth(y, m) ==
    IF m = 2 THEN (IF IsLeap(y) THEN 29 ELSE 28)
    ELSE IF m \in {4, 6, 9, 11} THEN 30 ELSE 31

\* YYYY-MM-DD, ten characters.
DateOK(d) ==
    /\ Len(d) = 10
    /\ d[5] = "-" /\ d[8] = "-"
    /\ AllDigits(SubSeq(d, 1, 4)) /\ AllDigits(SubSeq(d, 6, 7)) /\ AllDigits(SubSeq(d, 9, 10))
    /\ LET y  == DigitsVal(SubSeq(d, 1, 4))
           m  == DigitsVal(SubSeq(d, 6, 7))
           dd == DigitsVal(SubSeq(d, 9, 10))
       IN  y >= 1 /\ m \in 1..12 /\ dd >= 1 /\ dd <= DaysInMonth(y, m)

\* HH[:MM[:SS[.fff[fff]]]]; a fraction has as many digits as FracLens allows.
HmsOK(t, FracLens) ==
    /\ \/ Len(t) \in {2, 5, 8}
       \/ Len(t) > 9 /\ t[9] = "." /\ (Len(t) - 9) \in FracLens
                     /\ AllDigits(SubSeq(t, 10, Len(t)))
    /\ AllDigits(SubSeq(t, 1, 2)) /\ DigitsVal(SubSeq(t, 1, 2)) <= 23
    /\ Len(t) >= 5 => /\ t[3] = ":" /\ AllDigits(SubSeq(t, 4, 5))
                      /\ DigitsVal(SubSeq(t, 4, 5)) <= 59
    /\ Len(t) >= 8 => /\ t[6] = ":" /\ AllDigits(SubSeq(t, 7, 8))
                      /\ DigitsVal(SubSeq(t, 7, 8)) <= 59

\* The text after the sign of a UTC offset: HH:MM[:SS[.ffffff]].
TzOK(z) == Len(z) \in {5, 8, 15} /\ HmsOK(z, {6})

\* The text after the separator: the time, then the offset from its first sign.
TimeOK(t) ==
    LET signs == {j \in 1..Len(t) : t[j] \in {"+", "-"}}
        p     == IF signs = {} THEN 0 ELSE CHOOSE j \in signs : \A h \in signs : j <= h
    IN  IF p = 0 THEN HmsOK(t, {3, 6})
        ELSE HmsOK(SubSeq(t, 1, p - 1), {3, 6}) /\ TzOK(SubSeq(t, p + 1, Len(t)))

\* TRUE when datetime.fromisoformat(cs) returns, FALSE when it raises ValueError.
fromisoformat(cs) ==
    /\ Len(cs) >= 10
    /\ DateOK(SubSeq(cs, 1, 10))
    /\ Len(cs) > 10 => Len(cs) > 11 /\ TimeOK(SubSeq(cs, 12, Len(cs)))

(***************************************************************************)
(* safe_convert_date  (download_GBIF.py, lines 83-104)                      *)
(***************************************************************************)
UtcOffset == <<"+", "0", "0", ":", "0", "0">>

\* date_str.replace('Z', '+00:00'): every Z of the text is replaced.
RECURSIVE ReplaceZ(_)
ReplaceZ(cs) ==
    IF cs = << >> THEN << >>
    ELSE (IF Head(cs) = "Z" THEN UtcOffset ELSE <<Head(cs)>>) \o ReplaceZ(Tail(cs))

\* The part after the last "/": date_str.split('/')[-1].
LastOfRange(cs) ==
    LET slashes == {j \in 1..Len(cs) : cs[j] = "/"}
    IN  IF slashes = {} THEN cs
        ELSE SubSeq(cs, (CHOOSE j \in slashes : \A h \in slashes : h <= j) + 1, Len(cs))

\* date_str.split('/')[0]
FirstOfRange(cs) ==
    IF Contains(cs, "/") THEN SubSeq(cs, 1, FirstIndex(cs, "/") - 1) ELSE cs

\* The cut one character late: date_str[:20].
TruncateOffByOne(cs) ==
    IF Contains(cs, "T") /\ Len(cs) > 19 THEN SubSeq(cs, 1, 20) ELSE cs

\* Line 95-96: the cut to date and time-to-seconds.
TimestampLen == 19
Truncate(cs) ==
    IF Contains(cs, "T") /\ Len(cs) > TimestampLen THEN SubSeq(cs, 1, TimestampLen) ELSE cs

\* The text that line 101 validates and line 102 returns.
DateStr(date_value) == Truncate(FirstOfRange(Str(date_value)))

\* Line 102 returning the text that was validated, with its Z replaced.
safe_convert_date_validated(date_value) ==
    IF IsNullMarker(date_value) THEN PyNone
    ELSE IF fromisoformat(ReplaceZ(DateStr(date_value)))
         THEN PyStr(ReplaceZ(DateStr(date_value)))
         ELSE PyNone

safe_convert_date(date_value) ==
    IF IsNullMarker(date_value) THEN PyNone
    ELSE IF fromisoformat(ReplaceZ(DateStr(date_value)))
         THEN PyStr(DateStr(date_value))
         ELSE PyNone

(***************************************************************************)
(* The raw values and texts the functions are applied to.                   *)
(***************************************************************************)
\* Missing markers, numbers and texts a provider's field can hold.
Values ==
    { PyNone,
      PyNaN,
      PyInf,
      PyNegInf,
      PyInt(0),
      PyInt(52),
      PyInt(-7),
      PyInt(2024),
      PyFloat(105),
      PyFloat(-5),
      PyFloat(20240),
      PyFloat(0),
      PyStr(<< >>),
      PyStr(<<"n", "a", "n">>),
      PyStr(<<"N", "a", "N">>),
      PyStr(<<"n", "o", "n", "e">>),
      PyStr(<<"N", "o", "n", "e">>),
      PyStr(<<"N", "O", "N", "E">>),
      PyStr(<<"a", "b", "c">>),
      PyStr(<<"1", "0", ".", "0">>),
      PyStr(<<"5", "2">>),
      PyStr(<<" ", "5", "2", " ">>),
      PyStr(<<"-", "7">>),
      PyStr(<<"1", ".", "5">>),
      PyStr(<<"i", "n", "f">>),
      PyStr(<<"-", "I", "n", "f", "i", "n", "i", "t", "y">>),
      PyStr(<<" ", "n", "a", "n", " ">>),
      PyStr(<<" ">>),
      PyStr(<<".", "5">>),
      PyStr(<<"1", "0", ".">>),
      PyStr(<<"+", "3">>),
      PyStr(<<"2", "0", "2", "4", "-", "0", "6", "-", "0", "1">>) }

\* Event dates: a date, then a time with fraction and offset, then a range end.
DateParts ==
    { <<"2", "0", "2", "4", "-", "0", "6", "-", "0", "1">>,
      <<"2", "0", "2", "4", "-", "0", "2", "-", "2", "9">>,
      <<"2", "0", "2", "3", "-", "0", "2", "-", "2", "9">>,
      <<"2", "0", "2", "4", "-", "1", "3", "-", "0", "1">>,
      <<"2", "4", "-", "0", "6", "-", "0", "1">> }

TimeParts ==
    { << >>,
      <<"T", "1", "2", ":", "0", "0", ":", "0", "0">>,
      <<"T", "1", "2", ":", "0", "0", ":", "0", "0", "Z">>,
      <<"T", "1", "2", ":", "0", "0", ":", "0", "0", ".", "1", "2", "3", "4", "5", "6">>,
      <<"T", "1", "2", ":", "0", "0", ":", "0", "0", ".", "1", "2", "3", "4", "5", "6", "Z">>,
      <<"T", "1", "2", ":", "0", "0", ":", "0", "0", "+", "0", "0", ":", "0", "0">>,
      <<"T", "1", "2", ":", "0", "0", ":", "0", "0", "-", "0", "5", ":", "3", "0">>,
      <<"T", "1", "2", ":", "0", "0">>,
      <<"T", "1", "2", ":", "0", "0", "Z">>,
      <<"T", "1", "2">>,
      <<"T", "1", "2", "Z">>,
      <<"T", "1", "2", "Z", ":", "0", "0">>,
      <<" ", "1", "2", ":", "0", "0", ":", "0", "0">>,
      <<" ", "1", "2", ":", "0", "0", ":", "0", "0", ".", "1", "2", "3">>,
      <<" ", "1", "2", ":", "0", "0", ":", "0", "0", ".", "1", "2", "3", "4", "5", "6">>,
      <<" ", "1", "2", ":", "0", "0", ":", "0", "0", "Z">>,
      <<" ", "1", "2", ":", "0", "0", ":", "0", "0", "+", "0", "0", ":", "0", "0">>,
      <<"T", "2", "4", ":", "0", "0", ":", "0", "0">>,
      <<"T", "1", "2", ":", "6", "0", ":", "0", "0">>,
      <<"T", "1", "2", ":", "0", "0", ":", "0">>,
      <<"Z">>,
      <<"T">> }

RangeParts ==
    { << >>,
      <<"/", "2", "0", "2", "4", "-", "0", "6", "-", "3", "0">>,
      <<"/">>,
      <<"/", "2", "0", "2", "4", "-", "0", "6", "-", "3", "0", "T", "1", "2", ":", "0", "0", ":", "0", "0">> }

DateTexts == { d \o t \o r : d \in DateParts, t \in TimeParts, r \in RangeParts }

DateValues == Values \cup { PyStr(cs) : cs \in DateTexts }

(***************************************************************************)
(* Rows of the provider's table (the columns of lines 36-53) and the        *)
(* records built from them (lines 109-121).                                 *)
(***************************************************************************)
Row(lat, lon, year, date, name) ==
    [scientificName |-> name, species |-> name, genus |-> name,
     family |-> name, order |-> PyNone,
     decimalLatitude |-> lat, decimalLongitude |-> lon,
     year |-> year, month |-> PyFloat(60), day |-> PyStr(<<"a", "b", "c">>),
     eventDate |-> date]

Txt_10_0  == <<"1", "0", ".", "0">>
Txt_abc   == <<"a", "b", "c">>
Txt_Range == <<"2", "0", "2", "4", "-", "0", "6", "-", "0", "1", "/", "2", "0", "2", "4", "-", "0", "6", "-", "3", "0">>
Txt_Stamp == <<"2", "0", "2", "4", "-", "0", "6", "-", "0", "1", "T", "1", "2", ":", "0", "0", ":", "0", "0", ".", "1", "2", "3", "4", "5", "6", "Z">>

RowA   == Row(PyFloat(105), PyStr(Txt_10_0), PyInt(2024), PyStr(Txt_Range), PyStr(<<"A">>))
RowB   == Row(PyInt(52), PyFloat(-5), PyStr(Txt_abc), PyStr(Txt_Stamp), PyStr(<<"B">>))
\* Latitude "abc", longitude "10.0": rejected at line 124.
RowBadLat == Row(PyStr(Txt_abc), PyStr(Txt_10_0), PyInt(2024), PyNone, PyStr(<<"C">>))
\* A missing latitude: dropped at line 61.
RowNaN == Row(PyNaN, PyFloat(-5), PyInt(2024), PyNone, PyStr(<<"D">>))
\* A year that is a non-finite number.
RowInf == Row(PyInt(52), PyFloat(-5), PyInf, PyNone, PyStr(<<"E">>))

RowKinds == {RowA, RowB, RowBadLat, RowNaN, RowInf}

\* Rows that differ from RowA in one or two fields, over all the values.
RowsByCoordinates == { Row(lat, lon, PyInt(2024), PyNone, PyStr(<<"A">>)) :
                          lat \in Values, lon \in Values }
RowsByYear  == { Row(PyInt(52), PyFloat(-5), y, PyNone, PyStr(<<"A">>)) : y \in Values }
RowsByName  == { Row(PyInt(52), PyFloat(-5), PyInt(2024), PyNone, v) : v \in Values }
RowsByDate  == { Row(PyInt(52), PyFloat(-5), PyInt(2024), d, PyStr(<<"A">>)) :
                          d \in DateValues }
RowsByMonthDay == { [Row(PyInt(52), PyFloat(-5), PyInt(2024), PyNone, PyStr(<<"A">>))
                        EXCEPT !.month = v, !.day = w] : v \in Values, w \in {PyInt(1), PyInf} }
SingleRows == RowsByCoordinates \cup RowsByYear \cup RowsByName \cup RowsByDate
                  \cup RowsByMonthDay

\* The dictionary of lines 109-121, field by field.
Record(row) ==
    [scientific_name   |-> safe_convert(row.scientificName, "none"),
     species           |-> safe_convert(row.species, "none"),
     genus             |-> safe_convert(row.genus, "none"),
     family            |-> safe_convert(row.family, "none"),
     order             |-> safe_convert(row.order, "none"),
     decimal_latitude  |-> safe_convert(row.decimalLatitude, "float"),
     decimal_longitude |-> safe_convert(row.decimalLongitude, "float"),
     year              |-> safe_convert(row.year, "int"),
     month             |-> safe_convert(row.month, "int"),
     day               |-> safe_convert(row.day, "int"),
     event_date        |-> safe_convert_date(row.eventDate)]

RecordFields == {"scientific_name", "species", "genus", "family", "order",
                 "decimal_latitude", "decimal_longitude", "year", "month", "day",
                 "event_date"}

\* An exception left one of the calls of lines 110-120.
RecordRaises(row) == \E f \in RecordFields : IsRaised(Record(row)[f])

\* The test of line 124.
HasCoordinates(record) ==
    record.decimal_latitude # PyNone /\ record.decimal_longitude # PyNone

\* df_clean.dropna(subset=['decimalLatitude', 'decimalLongitude']), line 61.
dropna(rows) ==
    SelectSeq(rows, LAMBDA r : ~isna(r.decimalLatitude) /\ ~isna(r.decimalLongitude))

Min(a, b) == IF a < b THEN a ELSE b

\* The slice with its end included: records[i:i + batch_size + 1].
BatchInclusiveEnd(recs, start, size) ==
    SubSeq(recs, start + 1, IF start + size + 1 < Len(recs) THEN start + size + 1 ELSE Len(recs))

\* records[i:i + batch_size], line 134 (i counts from 0).
Batch(recs, start, size) == SubSeq(recs, start + 1, Min(start + size, Len(recs)))

(***************************************************************************)
(* The run of the script: lines 59-177.                                     *)
(***************************************************************************)
\* batch_size of line 130.
BATCH_SIZE == 100

\* Bounds of the inputs explored.
MaxRows  == 3
MaxBatch == 3
LongLen  == 250

BatchSizes == (1..MaxBatch) \cup {BATCH_SIZE}

ShortTables == UNION { [1..len -> RowKinds] : len \in 0..MaxRows }
SingleTables == { <<r>> : r \in SingleRows }
\* A table long enough for several batches of BATCH_SIZE.
LongTable == [j \in 1..LongLen |-> IF j % 2 = 1 THEN RowA ELSE RowB]

VARIABLES
    pc,             \* where the script is: Idle, Validating, Loading (line 134),
                    \* Inserting (inside the call of line 135), Done, Failed
    df,             \* the rows fetched (df_filtered)
    batch_size,     \* line 130
    df_clean,       \* line 61
    next_row,       \* the row the loop of line 108 takes next
    records,        \* line 107
    i,              \* the loop variable of line 133
    total_inserted, \* line 131
    calls,          \* the insert requests sent to the store, in order
    store,          \* the rows of table gbif_fungal_observations written by the run
    stdout,         \* what print wrote
    errors,         \* what logger.error wrote
    epilogue,       \* lines 145-177 ran
    call,           \* a call of a field function on its own, and
    ret,            \* what it returned
    \* download_copernicus.py
    files,          \* the paths that exist, relative to the working directory
    environ,        \* os.environ['SUPABASE_DB_URL'] after load_dotenv
    database,       \* the raster table sst_data holds a load
    main_pc,        \* where main() is
    stages,         \* what each stage of main() did, in order
    \* process_haedat.py
    xlsx,           \* the sheet read by line 11
    csv             \* what process_haedat_file wrote and returned

vars == <<pc, df, batch_size, df_clean, next_row, records, i, total_inserted,
          calls, store, stdout, errors, epilogue, call, ret,
          files, environ, database, main_pc, stages, xlsx, csv>>

scriptVars == <<files, environ, database, main_pc, stages, xlsx, csv>>

runVars == <<pc, df, batch_size, df_clean, next_row, records, i, total_inserted,
             calls, store, stdout, errors, epilogue>>

NoCall   == [fn |-> "none", value |-> PyNone, convert_func |-> "none"]
NoReturn == [ret |-> PyNone, applied |-> FALSE, returned |-> FALSE]

Message(text, a, b, c) == [msg |-> text, a |-> a, b |-> b, c |-> c]

NoSheet == [columns |-> << >>, rows |-> << >>]
NoCsv   == [written |-> FALSE, raised |-> "none", columns |-> << >>, rows |-> << >>]

\* The other two scripts are not running.
ScriptsIdle ==
    /\ files = {} /\ environ = "unset" /\ database = FALSE
    /\ main_pc = "idle" /\ stages = << >>
    /\ xlsx = NoSheet /\ csv = NoCsv

InitRun ==
    /\ pc = "Idle"
    /\ \/ df \in ShortTables /\ batch_size \in BatchSizes
       \/ df \in SingleTables /\ batch_size = BATCH_SIZE
       \/ df = LongTable /\ batch_size = BATCH_SIZE
    /\ df_clean = << >>
    /\ next_row = 1
    /\ records = << >>
    /\ i = 0
    /\ total_inserted = 0
    /\ calls = << >>
    /\ store = << >>
    /\ stdout = << >>
    /\ errors = << >>
    /\ epilogue = FALSE

Init == InitRun /\ call = NoCall /\ ret = NoReturn /\ ScriptsIdle

\* Lines 141-143: the except clause of the try of line 71.
Except(exc) ==
    /\ pc' = "Failed"
    /\ errors' = Append(errors, exc)

\* Lines 60-61 and 107.
Start ==
    /\ pc = "Idle"
    /\ pc' = "Validating"
    /\ df_clean' = dropna(df)
    /\ records' = << >>
    /\ next_row' = 1
    /\ UNCHANGED <<df, batch_size, i, total_inserted, calls, store, stdout, errors,
                   epilogue, call, ret, scriptVars>>

\* One turn of the loop of lines 108-125.
ValidateRow ==
    /\ pc = "Validating"
    /\ next_row <= Len(df_clean)
    /\ LET row == df_clean[next_row]
       IN  IF RecordRaises(row)
           THEN /\ Except("OverflowError")
                /\ UNCHANGED <<records, next_row>>
           ELSE /\ records' = IF HasCoordinates(Record(row))
                              THEN Append(records, Record(row))
                              ELSE records
                /\ next_row' = next_row + 1
                /\ UNCHANGED <<pc, errors>>
    /\ UNCHANGED <<df, batch_size, df_clean, i, total_inserted, calls, store, stdout,
                   epilogue, call, ret, scriptVars>>

\* The loop of line 133 as a loop that tests its condition after the body.
LoopHeadDoWhile(start, out, total) ==
    /\ pc' = "Loading"
    /\ stdout' = out

\* The head of the loop of line 133 with loop variable at start, after out was
\* printed: another turn, or line 139.
LoopHead(start, out, total) ==
    IF start < Len(records)
    THEN /\ pc' = "Loading"
         /\ stdout' = out
    ELSE /\ pc' = "Done"
         /\ stdout' = Append(out, Message("Successfully saved", total, 0, 0))

\* Lines 127-133: the loop of line 108 is over.
EndValidation ==
    /\ pc = "Validating"
    /\ next_row > Len(df_clean)
    /\ total_inserted' = 0
    /\ i' = 0
    /\ LoopHead(0, Append(stdout, Message("Prepared", Len(records), 0, 0)), 0)
    /\ UNCHANGED <<df, batch_size, df_clean, next_row, records, calls, store, errors,
                   epilogue, call, ret, scriptVars>>

\* Lines 134-135: the batch is cut and the insert request is sent.
IssueInsert ==
    /\ pc = "Loading"
    /\ pc' = "Inserting"
    /\ calls' = Append(calls, [start |-> i, batch |-> Batch(records, i, batch_size),
                               status |-> "pending"])
    /\ UNCHANGED <<df, batch_size, df_clean, next_row, records, i, total_inserted, store,
                   stdout, errors, epilogue, call, ret, scriptVars>>

\* The request in flight.
Pending == calls[Len(calls)]
Settle(status) == [calls EXCEPT ![Len(calls)].status = status]

\* Line 136 adding batch_size in place of len(batch).
InsertReturnsCountsBatchSize ==
    /\ pc = "Inserting"
    /\ calls' = Settle("ok")
    /\ store' = store \o Pending.batch
    /\ total_inserted' = total_inserted + batch_size
    /\ i' = i + batch_size
    /\ LoopHead(i + batch_size,
                Append(stdout, Message("Inserted batch", (i \div batch_size) + 1,
                                       total_inserted + batch_size, Len(records))),
                total_inserted + batch_size)
    /\ UNCHANGED <<df, batch_size, df_clean, next_row, records, errors, epilogue, call, ret, scriptVars>>

\* Lines 135-137, then 133: execute() returns, the store holds the batch.
InsertReturns ==
    /\ pc = "Inserting"
    /\ calls' = Settle("ok")
    /\ store' = store \o Pending.batch
    /\ total_inserted' = total_inserted + Len(Pending.batch)
    /\ i' = i + batch_size
    /\ LoopHead(i + batch_size,
                Append(stdout, Message("Inserted batch", (i \div batch_size) + 1,
                                       total_inserted + Len(Pending.batch), Len(records))),
                total_inserted + Len(Pending.batch))
    /\ UNCHANGED <<df, batch_size, df_clean, next_row, records, errors, epilogue, call, ret, scriptVars>>

\* The failure caught inside the loop, and the same batch sent again.
InsertFailsRetry ==
    /\ pc = "Inserting"
    /\ calls' = Settle("failed")
    /\ errors' = Append(errors, "APIError")
    /\ pc' = "Loading"
    /\ UNCHANGED <<df, batch_size, df_clean, next_row, records, i, total_inserted, store,
                   stdout, epilogue, call, ret, scriptVars>>

\* The failure caught inside the loop, and the loop going on to the next batch.
InsertFailsContinue ==
    /\ pc = "Inserting"
    /\ calls' = Settle("failed")
    /\ errors' = Append(errors, "APIError")
    /\ i' = i + batch_size
    /\ LoopHead(i + batch_size, stdout, total_inserted)
    /\ UNCHANGED <<df, batch_size, df_clean, next_row, records, total_inserted, store,
                   epilogue, call, ret, scriptVars>>

\* The failure logged inside the loop, the loop left by break, and line 139
\* reached.
InsertFailsReportsSuccess ==
    /\ pc = "Inserting"
    /\ calls' = Settle("failed")
    /\ errors' = Append(errors, "APIError")
    /\ pc' = "Done"
    /\ stdout' = Append(stdout, Message("Successfully saved", total_inserted, 0, 0))
    /\ UNCHANGED <<df, batch_size, df_clean, next_row, records, i, total_inserted, store,
                   epilogue, call, ret, scriptVars>>

\* Line 135 raises: the store refused the batch and holds none of it.
InsertFails ==
    /\ pc = "Inserting"
    /\ calls' = Settle("failed")
    /\ Except("APIError")
    /\ UNCHANGED <<df, batch_size, df_clean, next_row, records, i, total_inserted, store,
                   stdout, epilogue, call, ret, scriptVars>>

\* Lines 145-177: the file list, the verification select and the connection test.
Epilogue ==
    /\ pc \in {"Done", "Failed"}
    /\ ~epilogue
    /\ epilogue' = TRUE
    /\ stdout' = Append(stdout, Message("Verification: Found", Min(5, Len(store)), 0, 0))
    /\ UNCHANGED <<pc, df, batch_size, df_clean, next_row, records, i, total_inserted,
                   calls, store, errors, call, ret, scriptVars>>

Next ==
    \/ Start
    \/ ValidateRow
    \/ EndValidation
    \/ IssueInsert
    \/ InsertReturns
    \/ InsertFails
    \/ Epilogue

Spec == Init /\ [][Next]_vars

(***************************************************************************)
(* The field functions on their own: one call of safe_convert or of         *)
(* safe_convert_date on a value drawn from the sets above.                  *)
(***************************************************************************)
UpperChar(c) ==
    IF \E u \in 1..26 : LowerCase[u] = c
    THEN UpperCase[CHOOSE u \in 1..26 : LowerCase[u] = c]
    ELSE c

\* Every spelling of a word in upper and lower case letters.
RECURSIVE CaseVariants(_)
CaseVariants(w) ==
    IF w = << >> THEN { << >> }
    ELSE { <<c>> \o t : c \in {Head(w), UpperChar(Head(w))}, t \in CaseVariants(Tail(w)) }

MarkerTexts == CaseVariants(<<"n", "a", "n">>) \cup CaseVariants(<<"n", "o", "n", "e">>)
                   \cup { << >> }

FieldValues == Values \cup { PyStr(t) : t \in MarkerTexts }

InitFields ==
    /\ pc = "Idle" /\ df = << >> /\ batch_size = BATCH_SIZE /\ df_clean = << >>
    /\ next_row = 1 /\ records = << >> /\ i = 0 /\ total_inserted = 0
    /\ calls = << >> /\ store = << >> /\ stdout = << >> /\ errors = << >>
    /\ epilogue = FALSE
    /\ \/ call \in [fn : {"safe_convert"}, value : FieldValues, convert_func : ConvertFuncs]
       \/ call \in [fn : {"safe_convert_date"}, value : DateValues \cup FieldValues,
                    convert_func : {"none"}]
    /\ ret = NoReturn
    /\ ScriptsIdle

CallSafeConvert ==
    /\ call.fn = "safe_convert"
    /\ ~ret.returned
    /\ ret' = [ret      |-> safe_convert(call.value, call.convert_func),
               applied  |-> SafeConvertCall(call.value, call.convert_func).applied,
               returned |-> TRUE]
    /\ UNCHANGED <<runVars, call, scriptVars>>

CallSafeConvertDate ==
    /\ call.fn = "safe_convert_date"
    /\ ~ret.returned
    /\ ret' = [ret      |-> safe_convert_date(call.value),
               applied  |-> ~IsNullMarker(call.value),
               returned |-> TRUE]
    /\ UNCHANGED <<runVars, call, scriptVars>>

NextFields == CallSafeConvert \/ CallSafeConvertDate

SpecFields == InitFields /\ [][NextFields]_vars

(***************************************************************************)
(* Properties of the batch loader, checked under Spec.                      *)
(***************************************************************************)
RECURSIVE ConcatBatches(_)
ConcatBatches(cs) ==
    IF cs = << >> THEN << >>
    ELSE ConcatBatches(SubSeq(cs, 1, Len(cs) - 1)) \o cs[Len(cs)].batch

OkCalls == SelectSeq(calls, LAMBDA c : c.status = "ok")
Progress == SelectSeq(stdout, LAMBDA m : m.msg = "Inserted batch")
Saved == SelectSeq(stdout, LAMBDA m : m.msg = "Successfully saved")

\* C1: when the insert of batch k fails the run stops: the failed request is the
\* last one ever sent (no later batch, no second request for batch k or for any of
\* its records), the run is in Failed and the error was logged.
C1_FailureStopsRun ==
    \A j \in 1..Len(calls) :
        calls[j].status = "failed" =>
            /\ j = Len(calls)
            /\ pc = "Failed"
            /\ errors # << >>
            /\ \A h \in 1..Len(calls) : h # j => calls[h].start < calls[j].start

\* Batch 2 of 100/100/50 failed, the rest of the script ran, batch 3 was never sent.
C1_Witness ==
    /\ pc = "Failed" /\ epilogue
    /\ batch_size = BATCH_SIZE /\ Len(records) > 2 * BATCH_SIZE
    /\ Len(calls) = 2 /\ calls[2].status = "failed"

\* C2: the batches sent are the contiguous slices of the validated records in
\* order: request j starts at (j-1)*B, holds records (j-1)*B+1 .. min(j*B, n), so
\* B of them unless it is the last, which holds 1..B; joined in order they are a
\* prefix of the records and, once Done, all of them.
C2_Partition ==
    /\ \A j \in 1..Len(calls) :
          LET b     == calls[j].batch
              first == (j - 1) * batch_size
          IN  /\ calls[j].start = first
              /\ Len(b) >= 1
              /\ Len(b) = Min(batch_size, Len(records) - first)
              /\ \A h \in 1..Len(b) : b[h] = records[first + h]
    /\ pc = "Done" => ConcatBatches(calls) = records

\* 250 records went out as 100, 100, 50.
C2_Witness ==
    /\ pc = "Done" /\ batch_size = BATCH_SIZE /\ Len(records) = LongLen
    /\ Len(calls) = 3
    /\ Len(calls[1].batch) = BATCH_SIZE /\ Len(calls[2].batch) = BATCH_SIZE
    /\ Len(calls[3].batch) = LongLen - 2 * BATCH_SIZE

\* C3: in every state the store holds exactly the batches whose insert succeeded,
\* which is a prefix of the validated records, and it stops where a failed (or
\* still pending) batch starts.
C3_DurablePrefix ==
    /\ store = ConcatBatches(OkCalls)
    /\ Len(store) <= Len(records)
    /\ store = SubSeq(records, 1, Len(store))
    /\ \A j \in 1..Len(calls) : calls[j].status # "ok" => Len(store) = calls[j].start

\* Three batches of one record, the second failed: the store holds the first record.
C3_Witness ==
    /\ pc = "Failed" /\ batch_size = 1 /\ Len(records) = 3
    /\ Len(calls) = 2 /\ calls[2].status = "failed"
    /\ store = <<records[1]>> /\ records[2] # records[1]

\* C4: total_inserted is the number of records inserted so far; the j-th progress
\* line shows j, min(j*B, n) and n; a Done run ends with total n; when batch k
\* fails the total, and the last progress line, show (k-1)*B.
C4_RunningTotal ==
    /\ total_inserted = Len(store)
    /\ total_inserted = Len(ConcatBatches(OkCalls))
    /\ Len(Progress) = Len(OkCalls)
    /\ \A j \in 1..Len(Progress) :
          /\ Progress[j].a = j
          /\ Progress[j].b = Min(j * batch_size, Len(records))
          /\ Progress[j].c = Len(records)
    /\ pc = "Done" => total_inserted = Len(records)
                      /\ Saved = <<Message("Successfully saved", Len(records), 0, 0)>>
    /\ pc # "Done" => Saved = << >>
    /\ \A k \in 1..Len(calls) :
          calls[k].status = "failed" =>
              /\ total_inserted = (k - 1) * batch_size
              /\ k > 1 => Progress[Len(Progress)].b = (k - 1) * batch_size

\* Batch 2 of 100/100/50 failed: the last progress line reads 1, 100, 250.
C4_Witness ==
    /\ pc = "Failed" /\ Len(calls) = 2 /\ calls[2].status = "failed"
    /\ total_inserted = BATCH_SIZE
    /\ Progress = <<Message("Inserted batch", 1, BATCH_SIZE, LongLen)>>

\* The states of the run as the design names them.
Phase == IF pc = "Inserting" THEN "Loading" ELSE pc
PhaseMoves ==
    { <<"Idle", "Validating">>, <<"Validating", "Validating">>,
      <<"Validating", "Loading">>, <<"Validating", "Done">>,
      <<"Loading", "Loading">>, <<"Loading", "Done">>, <<"Loading", "Failed">>,
      <<"Done", "Done">>, <<"Failed", "Failed">> }

\* C5: a run moves Idle -> Validating -> Loading(1) -> ... -> Done (directly to
\* Done when there is no batch), or Loading(i) -> Failed, and in no other way; a
\* request is sent only when validation is over and every earlier request has
\* succeeded, and never from Done or Failed.
C5_StateMachine ==
    [][ /\ <<Phase, Phase'>> \in PhaseMoves
        /\ Len(calls') > Len(calls) =>
              /\ pc = "Loading" /\ next_row > Len(df_clean)
              /\ \A j \in 1..Len(calls) : calls[j].status = "ok"
        /\ pc \in {"Done", "Failed"} => pc' = pc /\ calls' = calls /\ store' = store
      ]_vars

\* Latitude and longitude both resolve to a non-null value.
Resolves(row) ==
    /\ safe_convert(row.decimalLatitude, "float") # PyNone
    /\ safe_convert(row.decimalLongitude, "float") # PyNone

\* C6: a row is emitted if and only if its latitude and longitude resolve: once
\* validation is left, the records are the rows that resolve, in order, whatever
\* their other fields hold; and no record, in the list or in a batch, has a null
\* coordinate.
C6_Retention ==
    /\ \A j \in 1..Len(records) : HasCoordinates(records[j])
    /\ \A j \in 1..Len(calls) : \A h \in 1..Len(calls[j].batch) :
          HasCoordinates(calls[j].batch[h])
    /\ pc \notin {"Idle", "Validating"} =>
          LET kept == SelectSeq(df, Resolves)
          IN  /\ Len(records) = Len(kept)
              /\ \A j \in 1..Len(records) :
                    /\ records[j].scientific_name = safe_convert(kept[j].scientificName, "none")
                    /\ records[j].decimal_latitude = safe_convert(kept[j].decimalLatitude, "float")

\* C7: when validation has ended with no record, the run is Done, no insert
\* request was sent, the total reported is 0 and nothing was logged as an error.
C7_EmptyInput ==
    (pc \notin {"Idle", "Validating"} /\ next_row > Len(df_clean) /\ records = << >>) =>
        /\ pc = "Done"
        /\ calls = << >> /\ store = << >>
        /\ total_inserted = 0
        /\ Saved = <<Message("Successfully saved", 0, 0, 0)>>
        /\ errors = << >>

\* Rows were fetched, none was valid, and the script ran to its end.
C7_Witness ==
    /\ pc = "Done" /\ epilogue /\ Len(df) >= 2 /\ Len(df_clean) >= 1
    /\ records = << >> /\ calls = << >>

(***************************************************************************)
(* Properties of the field functions, checked under SpecFields.             *)
(***************************************************************************)
\* C8: safe_convert never raises: every call returns, and returns null or the
\* converted value.
C8_NeverRaises ==
    (call.fn = "safe_convert" /\ ret.returned) => ~IsRaised(ret.ret)

\* The inputs C9 names: missing values, the empty text, "nan" and "none" in any
\* letter case.
IsMarkerInput(v) == v \in {PyNone, PyNaN} \/ (v.k = "str" /\ v.s \in MarkerTexts)

\* C9: for a missing value, the empty text, or "nan" or "none" in any letter case,
\* safe_convert returns null whatever the conversion, and does not apply it.
C9_NullMarkers ==
    (call.fn = "safe_convert" /\ ret.returned /\ IsMarkerInput(call.value)) =>
        ret.ret = PyNone /\ ~ret.applied

\* "NONE" with the int conversion.
C9_Witness ==
    /\ call.fn = "safe_convert" /\ ret.returned
    /\ call.value = PyStr(<<"N", "O", "N", "E">>) /\ call.convert_func = "int"
    /\ ret.ret = PyNone

\* A trailing Z written as the UTC offset.
TranslateTrailingZ(cs) ==
    IF cs # << >> /\ cs[Len(cs)] = "Z"
    THEN SubSeq(cs, 1, Len(cs) - 1) \o UtcOffset
    ELSE cs
ParsesAsIso(cs) == fromisoformat(TranslateTrailingZ(cs))
IsMissingOrBlank(v) == v \in {PyNone, PyNaN} \/ (v.k = "str" /\ Strip(v.s) = << >>)

\* C10: safe_convert_date never raises; it returns null for a missing or blank
\* value and for a text that, range-split and truncated, does not parse as
\* ISO-8601 once a trailing Z is written as +00:00; otherwise it returns that
\* text; so every result that is not null parses as ISO-8601.
C10_TotalAndValidated ==
    (call.fn = "safe_convert_date" /\ ret.returned) =>
        /\ ~IsRaised(ret.ret)
        /\ IsMissingOrBlank(call.value) => ret.ret = PyNone
        /\ ret.ret # PyNone =>
              /\ ret.ret = PyStr(DateStr(call.value))
              /\ ParsesAsIso(ret.ret.s)
        /\ (~IsNullMarker(call.value) /\ ParsesAsIso(DateStr(call.value))) =>
              ret.ret = PyStr(DateStr(call.value))

\* The claims' own reading of the text: before the first "/", and its first 19
\* characters.
BeforeSlash(cs) ==
    IF \E j \in 1..Len(cs) : cs[j] = "/"
    THEN LET p == CHOOSE j \in 1..Len(cs) : cs[j] = "/" /\ \A h \in 1..(j - 1) : cs[h] # "/"
         IN  [j \in 1..(p - 1) |-> cs[j]]
    ELSE cs
First19(cs) == [j \in 1..19 |-> cs[j]]
HasT(cs) == \E j \in 1..Len(cs) : cs[j] = "T"
HasSlash(cs) == \E j \in 1..Len(cs) : cs[j] = "/"
Stamp19 == <<"2", "0", "2", "4", "-", "0", "6", "-", "0", "1", "T", "1", "2", ":", "0", "0", ":", "0", "0">>

\* C11: a text that, range-split, holds a T and more than 19 characters gives null
\* or exactly its first 19 characters; "2024-06-01T12:00:00.123456Z" gives
\* "2024-06-01T12:00:00"; a valid text of exactly 19 characters is returned
\* unchanged; no result holding a T is longer than 19 characters.
C11_Truncation ==
    (call.fn = "safe_convert_date" /\ ret.returned /\ call.value.k = "str") =>
        LET s == BeforeSlash(call.value.s)
        IN  /\ (HasT(s) /\ Len(s) > 19) => ret.ret \in {PyNone, PyStr(First19(s))}
            /\ call.value = PyStr(Txt_Stamp) => ret.ret = PyStr(Stamp19)
            /\ (Len(s) = 19 /\ s[11] \in {"T", " "} /\ fromisoformat(s)) => ret.ret = PyStr(s)
            /\ (ret.ret # PyNone /\ HasT(ret.ret.s)) => Len(ret.ret.s) <= 19

\* The over-long timestamp of the design, cut to 19 characters.
C11_Witness ==
    /\ call.fn = "safe_convert_date" /\ ret.returned
    /\ call.value = PyStr(Txt_Stamp) /\ ret.ret = PyStr(Stamp19)

\* C12: of a text holding "/", only the part before the first "/" is validated: the
\* result is null or that part (cut to 19 characters if it is an over-long
\* timestamp); a range whose first part is a valid date returns that date
\* ("2024-06-01/2024-06-30" gives "2024-06-01"); no result holds a "/".
C12_Ranges ==
    (call.fn = "safe_convert_date" /\ ret.returned /\ call.value.k = "str") =>
        LET s == BeforeSlash(call.value.s)
        IN  /\ HasSlash(call.value.s) =>
                  /\ ret.ret \in {PyNone, PyStr(s), PyStr(SubSeq(s, 1, Min(19, Len(s))))}
                  /\ DateOK(s) => ret.ret = PyStr(s)
            /\ call.value = PyStr(Txt_Range) => ret.ret = PyStr(SubSeq(Txt_Range, 1, 10))
            /\ ret.ret # PyNone => ~HasSlash(ret.ret.s)

\* The range of the design gave its first date.
C12_Witness ==
    /\ call.fn = "safe_convert_date" /\ ret.returned
    /\ call.value = PyStr(Txt_Range)
    /\ ret.ret = PyStr(<<"2", "0", "2", "4", "-", "0", "6", "-", "0", "1">>)

\* C13: safe_convert_date applied to its own result returns that result.
C13_Idempotent ==
    (call.fn = "safe_convert_date" /\ ret.returned) =>
        safe_convert_date(ret.ret) = ret.ret

\* A text was changed by the first application, and "2024-06-01T12:00:00" is what
\* it became.
C13_Witness ==
    /\ call.fn = "safe_convert_date" /\ ret.returned
    /\ ret.ret = PyStr(Stamp19) /\ call.value # ret.ret /\ HasSlash(call.value.s)


(***************************************************************************)
(* download_copernicus.py: main() runs download_sst_data,                   *)
(* convert_to_geotiff and load_to_supabase once each, in that order, over   *)
(* the files of the working directory.                                      *)
(***************************************************************************)
NcDownloaded == "data/sst_last_month.nc"   \* nc_file of download_sst_data
NcSource     == "sst_last_month.nc"        \* nc_file of convert_to_geotiff
TifFile      == "data/sst_monthly.tif"
SqlFile      == "sst_data.sql"

\* What os.environ.get('SUPABASE_DB_URL') gives: None, '', or a text that
\* starts with https:// or with postgresql://.
DbUrls == {"unset", "empty", "https://", "postgresql://"}

\* What a stage did: the files and the database it found, the file it read or
\* wrote (if any), and how it ended.
Stage(name, outcome, path) ==
    [stage |-> name, outcome |-> outcome, path |-> path,
     before |-> files, loaded |-> database]

InitCopernicus ==
    /\ pc = "Idle" /\ df = << >> /\ batch_size = BATCH_SIZE /\ df_clean = << >>
    /\ next_row = 1 /\ records = << >> /\ i = 0 /\ total_inserted = 0
    /\ calls = << >> /\ store = << >> /\ stdout = << >> /\ errors = << >>
    /\ epilogue = FALSE /\ call = NoCall /\ ret = NoReturn
    /\ xlsx = NoSheet /\ csv = NoCsv
    /\ files \in SUBSET {NcDownloaded, NcSource, TifFile}
    /\ environ \in DbUrls
    /\ database \in BOOLEAN
    /\ main_pc = "main"
    /\ stages = << >>

otherVars == <<runVars, call, ret, xlsx, csv>>

\* Ends a stage: main() goes on to the next call whatever the stage did.
Return(now, outcome, path, next) ==
    /\ main_pc = now
    /\ stages' = Append(stages, Stage(now, outcome, path))
    /\ main_pc' = next
    /\ UNCHANGED <<environ, otherVars>>

\* Lines 140-148: the banner, load_dotenv, and a login check that only prints.
Main ==
    /\ main_pc = "main"
    /\ main_pc' = "download"
    /\ UNCHANGED <<files, environ, database, stages, otherVars>>

\* Lines 19-22.
DownloadSkipped ==
    /\ NcDownloaded \in files
    /\ Return("download", "skipped", NcDownloaded, "convert")
    /\ UNCHANGED <<files, database>>

\* Lines 37-50: copernicusmarine.subset writes output_filename.
DownloadSucceeds ==
    /\ NcDownloaded \notin files
    /\ Return("download", "done", NcDownloaded, "convert")
    /\ files' = files \cup {NcDownloaded}
    /\ UNCHANGED database

\* Lines 52-54: any exception of the download is printed and swallowed.
DownloadFails ==
    /\ NcDownloaded \notin files
    /\ Return("download", "error", NcDownloaded, "convert")
    /\ UNCHANGED <<files, database>>

\* Lines 61-64.
ConvertSkipped ==
    /\ TifFile \in files
    /\ Return("convert", "skipped", TifFile, "load")
    /\ UNCHANGED <<files, database>>

\* Lines 67-70.
ConvertSourceNotFound ==
    /\ TifFile \notin files
    /\ NcSource \notin files
    /\ Return("convert", "source not found", NcSource, "load")
    /\ UNCHANGED <<files, database>>

\* Lines 72-80: gdal_translate reads NETCDF:"sst_last_month.nc" and writes
\* tif_file.
ConvertSucceeds ==
    /\ TifFile \notin files
    /\ NcSource \in files
    /\ Return("convert", "done", NcSource, "load")
    /\ files' = files \cup {TifFile}
    /\ UNCHANGED database

\* Lines 81-84: gdal_translate fails or is not installed.
ConvertFails ==
    /\ TifFile \notin files
    /\ NcSource \in files
    /\ \E exc \in {"CalledProcessError", "FileNotFoundError"} :
           Return("convert", exc, NcSource, "load")
    /\ UNCHANGED <<files, database>>

\* Lines 91-94.
LoadTifNotFound ==
    /\ TifFile \notin files
    /\ Return("load", "tif not found", TifFile, "end")
    /\ UNCHANGED <<files, database>>

\* Lines 97-102.
LoadUrlNotSet ==
    /\ TifFile \in files
    /\ environ \in {"unset", "empty"}
    /\ Return("load", "url not set", TifFile, "end")
    /\ UNCHANGED <<files, database>>

\* Lines 105-109.
LoadUrlInvalid ==
    /\ TifFile \in files
    /\ environ = "https://"
    /\ Return("load", "url invalid", TifFile, "end")
    /\ UNCHANGED <<files, database>>

\* Lines 111-128: raster2pgsql writes sst_data.sql and psql runs it.
LoadSucceeds ==
    /\ TifFile \in files
    /\ environ = "postgresql://"
    /\ Return("load", "done", TifFile, "end")
    /\ files' = files \cup {SqlFile}
    /\ database' = TRUE

\* Lines 130-134: raster2pgsql or psql fails or is not installed; line 119
\* has opened sst_data.sql for writing by then.
LoadFails ==
    /\ TifFile \in files
    /\ environ = "postgresql://"
    /\ \E exc \in {"CalledProcessError", "FileNotFoundError"} :
           Return("load", exc, TifFile, "end")
    /\ files' = files \cup {SqlFile}
    /\ UNCHANGED database

NextCopernicus ==
    \/ Main
    \/ DownloadSkipped \/ DownloadSucceeds \/ DownloadFails
    \/ ConvertSkipped \/ ConvertSourceNotFound \/ ConvertSucceeds \/ ConvertFails
    \/ LoadTifNotFound \/ LoadUrlNotSet \/ LoadUrlInvalid \/ LoadSucceeds \/ LoadFails

SpecCopernicus == InitCopernicus /\ [][NextCopernicus]_vars

\* The stage of that name in a finished run.
StageOf(name) == CHOOSE st \in { stages[j] : j \in 1..Len(stages) } : st.stage = name

\* The stage went as far as running its tool.
Ran(st) == st.outcome \in {"done", "error", "CalledProcessError", "FileNotFoundError"}

\* C14: a run of main() is download, then convert, then load.  From a
\* directory without the NetCDF file and the GeoTIFF, a download that
\* succeeds is followed by a conversion of the downloaded file, not by
\* "source not found"; a stage whose output exists is skipped; the load runs
\* only when the GeoTIFF exists and the database does not hold the raster yet.
C14_StageOrder ==
    main_pc = "end" =>
        LET d == StageOf("download")
            c == StageOf("convert")
            l == StageOf("load")
        IN  /\ [j \in 1..Len(stages) |-> stages[j].stage] = <<"download", "convert", "load">>
            /\ (d.before \cap {NcDownloaded, TifFile} = {} /\ d.outcome = "done") =>
                   /\ c.outcome # "source not found"
                   /\ Ran(c) => c.path = d.path
            /\ NcDownloaded \in d.before => d.outcome = "skipped"
            /\ TifFile \in c.before => c.outcome = "skipped"
            /\ Ran(l) => TifFile \in l.before /\ ~l.loaded


(***************************************************************************)
(* process_haedat.py: process_haedat_file reads a sheet, keeps the          *)
(* essential columns and the rows with valid coordinates, and writes them.  *)
(* A sheet is its column names in order and its rows, each a function from  *)
(* the column names to cell values.                                          *)
(***************************************************************************)
essential_columns ==
    << "eventName", "eventYear", "eventDate",
       "latitude", "longitude", "countryName", "region", "locationText",
       "causativeSpeciesName0", "cellsPerLitre0",
       "waterDiscoloration", "highPhyto", "seafoodToxin", "massMortal",
       "toxicityDetected", "toxinType", "toxin",
       "humansAffected", "fishAffected", "shellfishAffected", "birdsAffected",
       "syndromeName", "effectsComments" >>

Names(columns) == { columns[j] : j \in 1..Len(columns) }

\* Line 54.
existing_essential_columns(sheet) ==
    SelectSeq(essential_columns, LAMBDA col : col \in Names(sheet.columns))

\* Line 65: df[existing_essential_columns].
df_essential(sheet) ==
    LET cols == existing_essential_columns(sheet)
    IN  [columns |-> cols,
         rows    |-> [j \in 1..Len(sheet.rows) |->
                          [col \in Names(cols) |-> sheet.rows[j][col]]]]

\* A number cell in tenths.
Tenths(v) == IF v.k = "int" THEN 10 * v.n ELSE v.n

\* One cell of Series >= n and of Series <= n, for a cell that is not a text:
\* NaN and None compare False.
Ge(v, n) ==
    CASE v.k = "Inf" -> TRUE
      [] v.k \in {"float", "int"} -> Tenths(v) >= 10 * n
      [] OTHER -> FALSE

Le(v, n) ==
    CASE v.k = "NegInf" -> TRUE
      [] v.k \in {"float", "int"} -> Tenths(v) <= 10 * n
      [] OTHER -> FALSE

\* Series >= n and Series <= n compare every cell of the column with the
\* number, and a text cell against a number raises TypeError.
CompareRaises(frame, col) ==
    \E j \in 1..Len(frame.rows) : frame.rows[j][col].k = "str"

\* Lines 70-84, for one row.
coord_mask(row) ==
    /\ ~isna(row["latitude"])
    /\ row["latitude"] # PyStr(<< >>)
    /\ row["latitude"] # PyStr(<<" ">>)
    /\ Ge(row["latitude"], -90)
    /\ Le(row["latitude"], 90)
    /\ ~isna(row["longitude"])
    /\ row["longitude"] # PyStr(<< >>)
    /\ row["longitude"] # PyStr(<<" ">>)
    /\ Ge(row["longitude"], -180)
    /\ Le(row["longitude"], 180)

\* Lines 54-99: what the call writes to Haedat_essential.csv, or the
\* exception that ends it before line 99.
process_haedat_file(sheet) ==
    LET frame == df_essential(sheet)
    IN  IF ~({"latitude", "longitude"} \subseteq Names(frame.columns))
        THEN [written |-> FALSE, raised |-> "KeyError", columns |-> << >>, rows |-> << >>]
        ELSE IF CompareRaises(frame, "latitude") \/ CompareRaises(frame, "longitude")
        THEN [written |-> FALSE, raised |-> "TypeError", columns |-> << >>, rows |-> << >>]
        ELSE [written |-> TRUE, raised |-> "none", columns |-> frame.columns,
              rows |-> SelectSeq(frame.rows, coord_mask)]

MaxEvents == 2

\* Column lists of a sheet: the essential ones only, some of them among
\* others and in another order, and one without a longitude column.
SheetColumns ==
    { << "eventName", "latitude", "longitude" >>,
      << "longitude", "gridCode", "effectsComments", "latitude", "eventYear", "eventName" >>,
      << "eventName", "latitude", "countryName" >> }

\* A blank cell read by read_excel is NaN; a cell holding a space or an empty
\* text is that text.
LatitudeCells  == { PyNaN, PyFloat(455), PyFloat(900), PyFloat(901), PyFloat(-901),
                    PyStr(<<" ">>) }
LongitudeCells == { PyNaN, PyInt(10), PyFloat(-1800), PyFloat(1801), PyStr(<< >>) }

\* Row j of a sheet: eventName numbers the rows.
SheetRow(columns, j, lat, lon) ==
    [col \in Names(columns) |->
        CASE col = "eventName" -> PyInt(j)
          [] col = "latitude"  -> lat
          [] col = "longitude" -> lon
          [] col = "eventYear" -> PyInt(2020)
          [] OTHER             -> PyNaN]

Sheets ==
    { [columns |-> columns,
       rows    |-> [j \in 1..len |-> SheetRow(columns, j, lats[j], lons[j])]] :
          columns \in SheetColumns,
          len \in 1..MaxEvents,
          lats \in [1..MaxEvents -> LatitudeCells],
          lons \in [1..MaxEvents -> LongitudeCells] }

InitHaedat ==
    /\ pc = "Idle" /\ df = << >> /\ batch_size = BATCH_SIZE /\ df_clean = << >>
    /\ next_row = 1 /\ records = << >> /\ i = 0 /\ total_inserted = 0
    /\ calls = << >> /\ store = << >> /\ stdout = << >> /\ errors = << >>
    /\ epilogue = FALSE /\ call = NoCall /\ ret = NoReturn
    /\ files = {} /\ environ = "unset" /\ database = FALSE
    /\ main_pc = "idle" /\ stages = << >>
    /\ xlsx \in Sheets
    /\ csv = NoCsv

\* Lines 113-117: the one call of process_haedat_file.
ProcessHaedat ==
    /\ csv = NoCsv
    /\ csv' = process_haedat_file(xlsx)
    /\ UNCHANGED <<runVars, call, ret, files, environ, database, main_pc, stages, xlsx>>

NextHaedat == ProcessHaedat

SpecHaedat == InitHaedat /\ [][NextHaedat]_vars

\* A coordinate that is a number within the bounds; a missing or blank one is
\* not.
Within(v, low, high) ==
    /\ v.k \in {"float", "int"}
    /\ Tenths(v) >= 10 * low
    /\ Tenths(v) <= 10 * high

HasColumn(sheet, col) == col \in Names(sheet.columns)

ValidCoordinates(sheet, row) ==
    /\ HasColumn(sheet, "latitude")  /\ Within(row["latitude"], -90, 90)
    /\ HasColumn(sheet, "longitude") /\ Within(row["longitude"], -180, 180)

\* The essential columns of the sheet, in the declared order.
Declared(sheet) ==
    SelectSeq(essential_columns, LAMBDA col : HasColumn(sheet, col))

\* A row cut down to the given columns.
Project(row, columns) == [col \in Names(columns) |-> row[col]]

\* C15: once process_haedat_file has ended, the rows written are the rows of
\* the sheet with a latitude within [-90, 90] and a longitude within
\* [-180, 180], in the order of the sheet, and the columns written are the
\* essential columns the sheet has, in the declared order.
C15_CoordinateFilter ==
    csv # NoCsv =>
        LET valid == SelectSeq(xlsx.rows, LAMBDA row : ValidCoordinates(xlsx, row))
        IN  /\ csv.rows = [j \in 1..Len(valid) |-> Project(valid[j], Declared(xlsx))]
            /\ csv.written => csv.columns = Declared(xlsx)
            /\ \A j \in 1..Len(csv.rows) : ValidCoordinates(xlsx, csv.rows[j])


(***************************************************************************)
(* Termination of the batch loader.  The script is one thread that takes    *)
(* its next statement whenever it has one, and every insert request returns *)
(* or raises.  That is weak fairness of the steps of the run, stated here    *)
(* with their enabling condition written out: in Idle, Validating, Loading   *)
(* and Inserting one of them is enabled, in Done and Failed none is.         *)
(***************************************************************************)
RunStep ==
    Start \/ ValidateRow \/ EndValidation \/ IssueInsert \/ InsertReturns \/ InsertFails

Running == pc \in {"Idle", "Validating", "Loading", "Inserting"}

RunFairness == []<>(~Running) \/ []<><<RunStep>>_vars

FairSpec == Spec /\ RunFairness /\ WF_vars(Epilogue)

CeilDiv(n, b) == (n + b - 1) \div b

\* C16: the run ends in Done or Failed; it sends at most ceil(n/B) insert
\* requests for n validated records and batch size B; every turn of the loop
\* moves the start index up by exactly B >= 1; and the success message is
\* printed only in Done, after ceil(n/B) requests that all succeeded.
C16_Termination ==
    /\ <>(pc \in {"Done", "Failed"})
    /\ [](Len(calls) <= CeilDiv(Len(records), batch_size))
    /\ [][ /\ (pc = "Inserting" /\ pc' \in {"Loading", "Done"}) =>
                 (batch_size >= 1 /\ i' = i + batch_size)
           /\ i' # i => i' = i + batch_size ]_vars
    /\ [](Saved # << >> =>
             /\ pc = "Done"
             /\ Len(calls) = CeilDiv(Len(records), batch_size)
             /\ \A j \in 1..Len(calls) : calls[j].status = "ok")

\* Three records in batches of two: two requests, the index at 4, Done.
C16_Witness ==
    /\ pc = "Done" /\ Saved # << >>
    /\ Len(records) = 3 /\ batch_size = 2
    /\ Len(calls) = 2 /\ i = 4

====
